---------------------------- MODULE Spec2Model ----------------------------
(***************************************************************************)
(* scripts/gendockerfile.go: one run of main() as a state machine.         *)
(*                                                                         *)
(* An import path is a sequence of one-character strings, so that          *)
(* strings.IndexRune, slicing and sort.Strings are computed on the         *)
(* characters.  The "go list -json" subprocess, the file system and the    *)
(* "diff" subprocess are the environment: what they answer is drawn        *)
(* non-deterministically by the action that asks them.                     *)
(***************************************************************************)
EXTENDS Naturals, Sequences, FiniteSets, TLC

VARIABLES
    pc,             \* position of main(): start, loop, collect, open, execute, diff, done
    diffFlag,       \* *diffFlag, set by flag.Parse()
    listStatus,     \* "go list": unstarted, nostart, running, garbled (undecodable output),
                    \* ok (exited 0), failed (exited non-zero)
    pos,            \* number of package records decoded from stdout so far
    externalImports,\* the map[string]bool of main()
    imports,        \* the part of the slice `imports` the inner loop has yet to visit
    dataImports,    \* data.Imports
    buf,            \* the bytes.Buffer, as a sequence of lines
    file,           \* outFile on disk: [exists, lines]
    file0,          \* outFile as it was when the run began
    diffOut,        \* what the diff subprocess printed: none, context, nofile
    fatal,          \* the call whose error went to log.Fatal, or none
    exitCode,       \* exit status of the run (read when pc = "done")
    script,         \* replayed runs: the records "go list" emits, in order
    second,         \* replayed runs: TRUE in the second of the two runs
    prev            \* replayed runs: what the first run ended with

vars == <<pc, diffFlag, listStatus, pos, externalImports, imports, dataImports,
          buf, file, file0, diffOut, fatal, exitCode, script, second, prev>>

-----------------------------------------------------------------------------
(* Bounds *)

\* most package records "go list" emits in one run
MaxRecords == 2

\* most import paths in one package record (Imports, TestImports and
\* XTestImports together)
MaxImports == 2

-----------------------------------------------------------------------------
(* Strings *)

\* byte value of the characters the import paths below are made of
Code == [c \in {".", "/", "a", "b", "c", "e", "f", "g", "m", "o", "r", "t", "x"} |->
            CASE c = "." -> 46  [] c = "/" -> 47  [] c = "a" -> 97
              [] c = "b" -> 98  [] c = "c" -> 99  [] c = "e" -> 101
              [] c = "f" -> 102 [] c = "g" -> 103 [] c = "m" -> 109
              [] c = "o" -> 111 [] c = "r" -> 114 [] c = "t" -> 116
              [] c = "x" -> 120]

\* strings.IndexRune(s, c): index of the first c in s (1-based), 0 if none
\* (Go: 0-based, -1 if none)
IndexRune(s, c) ==
    IF \E i \in 1..Len(s) : s[i] = c
    THEN CHOOSE i \in 1..Len(s) : s[i] = c /\ \A j \in 1..(i - 1) : s[j] # c
    ELSE 0

\* Go's s < t on strings: bytewise, a proper prefix is smaller
RECURSIVE StrLess(_, _)
StrLess(s, t) ==
    IF t = <<>> THEN FALSE
    ELSE IF s = <<>> THEN TRUE
    ELSE IF Code[Head(s)] # Code[Head(t)] THEN Code[Head(s)] < Code[Head(t)]
    ELSE StrLess(Tail(s), Tail(t))

\* sort.Strings, as an insertion sort: Insert puts x before the first
\* element that is not smaller
RECURSIVE Insert(_, _)
Insert(x, s) ==
    IF s = <<>> THEN <<x>>
    ELSE IF StrLess(Head(s), x) THEN <<Head(s)>> \o Insert(x, Tail(s))
    ELSE <<x>> \o s

RECURSIVE InsertionSort(_)
InsertionSort(s) ==
    IF s = <<>> THEN <<>> ELSE Insert(Head(s), InsertionSort(Tail(s)))

\* a sort with the comparison reversed
RECURSIVE InsertDesc(_, _)
InsertDesc(x, s) ==
    IF s = <<>> THEN <<x>>
    ELSE IF StrLess(x, Head(s)) THEN <<Head(s)>> \o InsertDesc(x, Tail(s))
    ELSE <<x>> \o s

RECURSIVE SortDescending(_)
SortDescending(s) ==
    IF s = <<>> THEN <<>> ELSE InsertDesc(Head(s), SortDescending(Tail(s)))

\* no sort at all
Unsorted(s) == s

SortStrings(s) == InsertionSort(s)

-----------------------------------------------------------------------------
(* isExternal *)

\* a '.' anywhere in a path that has a '/'
isExternalAnyDot(importPath) ==
    IndexRune(importPath, "/") # 0 /\ IndexRune(importPath, ".") # 0

isExternal(importPath) ==
    LET r == IndexRune(importPath, "/")
    IN  IF r = 0 THEN FALSE
        ELSE IndexRune(SubSeq(importPath, 1, r - 1), ".") # 0


-----------------------------------------------------------------------------
(* Import paths and package records *)

fmt      == <<"f", "m", "t">>                       \* fmt
dotted   == <<"a", ".", "b">>                       \* a.b: a '.', no '/'
local    == <<"a", "/", "b", ".", "c">>             \* a/b.c: a '.' after the '/'
ecof     == <<"e", ".", "c", "o", "/", "f">>        \* e.co/f
ecofx    == <<"e", ".", "c", "o", "/", "f", "/", "x">>  \* e.co/f/x
gorgx    == <<"g", ".", "o", "r", "g", "/", "x">>   \* g.org/x

\* the import paths a record of an arbitrary stream is made of: one for each
\* way a path can have or lack a '/' and a '.', and a second external one
Paths == {dotted, local, ecof, ecofx}

SeqsUpTo(S, n) == UNION {[1..k -> S] : k \in 0..n}

\* build.Package, the fields main() reads
Package(path, imps, test, xtest) ==
    [ImportPath |-> path, Imports |-> imps, TestImports |-> test, XTestImports |-> xtest]

\* every record over Paths with at most MaxImports imports in its three lists
Records ==
    {Package(path, SubSeq(s, 1, i), SubSeq(s, i + 1, j), SubSeq(s, j + 1, Len(s))) :
        path \in Paths,
        <<s, i, j>> \in {<<s, i, j>> \in SeqsUpTo(Paths, MaxImports) \X (0..MaxImports) \X (0..MaxImports) :
                            i <= j /\ j <= Len(s)}}

\* what decoder.Decode returns when it returns no record
DecodeErrs == {"EOF", "syntax"}

-----------------------------------------------------------------------------
(* The template *)

Line(text, arg) == [text |-> text, arg |-> arg]

\* dockerfileTemplate.Execute on data.Imports = imps: the lines written
dockerfileTemplate(imps) ==
    << Line("# Code generated by gendockerfile. DO NOT EDIT.", <<>>),
       Line("FROM golang:latest", <<>>),
       Line("WORKDIR /go/src/go.elastic.co/apm", <<>>) >>
    \o [i \in 1..Len(imps) |-> Line("RUN go get -v ", imps[i])]
    \o << Line("", <<>>),
          Line("ADD . /go/src/go.elastic.co/apm", <<>>) >>

\* outFile on disk
Missing      == [exists |-> FALSE, lines |-> <<>>]
OnDisk(doc)  == [exists |-> TRUE, lines |-> doc]

\* outFile before the run: absent, or generated by an earlier run
FileInit == {Missing, OnDisk(dockerfileTemplate(<<>>)), OnDisk(dockerfileTemplate(<<ecof>>))}

\* a diff whose status tells of trouble only, never of a difference
DiffExitTroubleOnly(f, b) == IF ~f.exists THEN 2 ELSE 0

\* diff -c outFile - : exit status

DiffExit(f, b) ==
    IF ~f.exists THEN 2 ELSE IF f.lines = b THEN 0 ELSE 1

\* diff -c outFile - : what it prints
DiffOutput(f, b) ==
    IF ~f.exists THEN "nofile" ELSE IF f.lines = b THEN "none" ELSE "context"

-----------------------------------------------------------------------------
(* The steps of main() *)

\* first-seen wins: an existing entry is kept
RecordPackageFirstSeen(m, path) ==
    IF path \in DOMAIN m THEN m ELSE (path :> FALSE) @@ m

\* externalImports[pkg.ImportPath] = false
RecordPackage(m, path) == (path :> FALSE) @@ m

\* an existing entry is classified again
ClassifyAlways(m, importPath) == (importPath :> isExternal(importPath)) @@ m

\* the body of the loop over imports
Classify(m, importPath) ==
    IF importPath \in DOMAIN m THEN m
    ELSE (importPath :> isExternal(importPath)) @@ m

\* every decode error ends the loop
DecodeErrNeverFatal(err) == FALSE

\* if err != io.EOF { log.Fatal(err) }
DecodeErrIsFatal(err) == err # "EOF"

\* the file is created whatever the flag
WritesFileAlways == TRUE

\* if !*diffFlag { f, err := os.Create(outFile) ... out = f }
WritesFile == ~diffFlag

\* every key of the map, external or not
AllKeys(m) == DOMAIN m

\* for importPath, isExternal := range externalImports { if isExternal {...} }
ExternalKeys(m) == {p \in DOMAIN m : m[p]}

\* the one-to-one sequences over S: the orders a range over a map may take
Orders(S) ==
    {s \in [1..Cardinality(S) -> S] : \A i, j \in 1..Cardinality(S) : s[i] = s[j] => i = j}

\* the state flag.Parse() leaves, before "go list" is started
Begin ==
    /\ pc = "start"
    /\ diffFlag \in BOOLEAN
    /\ listStatus = "unstarted"
    /\ pos = 0
    /\ externalImports = <<>>
    /\ imports = <<>>
    /\ dataImports = <<>>
    /\ buf = <<>>
    /\ file \in FileInit
    /\ file0 = file
    /\ diffOut = "none"
    /\ fatal = "none"
    /\ exitCode = 0
    /\ second = FALSE
    /\ prev = <<>>

\* one run on an arbitrary stream
Init == Begin /\ script = <<>>

replay == <<script, second, prev>>

\* log.Fatal(err): the message is logged and the process exits with status 1
Fatal(kind) ==
    /\ pc' = "done"
    /\ fatal' = kind
    /\ exitCode' = 1

\* cmd.StdoutPipe() or cmd.Start() returns an error
StartFails ==
    /\ pc = "start"
    /\ listStatus' = "nostart"
    /\ Fatal("start")
    /\ UNCHANGED <<diffFlag, pos, externalImports, imports, dataImports, buf,
                   file, file0, diffOut, replay>>

Start ==
    /\ pc = "start"
    /\ listStatus' = "running"
    /\ pc' = "loop"
    /\ UNCHANGED <<diffFlag, pos, externalImports, imports, dataImports, buf,
                   file, file0, diffOut, fatal, exitCode, replay>>

\* decoder.Decode(&pkg) returns the record r: its own path and its imports
DecodePackage(r) ==
    /\ pc = "loop"
    /\ imports = <<>>
    /\ pos' = pos + 1
    /\ externalImports' = RecordPackage(externalImports, r.ImportPath)
    /\ imports' = (r.Imports \o r.TestImports) \o r.XTestImports
    /\ UNCHANGED <<pc, diffFlag, listStatus, dataImports, buf, file, file0,
                   diffOut, fatal, exitCode, replay>>

\* decoder.Decode(&pkg) returns err: the stream ended (the subprocess is
\* gone, with a status main() never asks for) or what follows is no record
DecodeStops(err) ==
    /\ pc = "loop"
    /\ imports = <<>>
    /\ IF err = "EOF" THEN listStatus' \in {"ok", "failed"} ELSE listStatus' = "garbled"
    /\ IF DecodeErrIsFatal(err)
       THEN Fatal("decode")
       ELSE pc' = "collect" /\ UNCHANGED <<fatal, exitCode>>
    /\ UNCHANGED <<diffFlag, pos, externalImports, imports, dataImports, buf,
                   file, file0, diffOut, replay>>

\* one turn of the loop over imports
ClassifyImport ==
    /\ pc = "loop"
    /\ imports # <<>>
    /\ externalImports' = Classify(externalImports, Head(imports))
    /\ imports' = Tail(imports)
    /\ UNCHANGED <<pc, diffFlag, listStatus, pos, dataImports, buf, file, file0,
                   diffOut, fatal, exitCode, replay>>

\* the range over the map, in whatever order it takes, and sort.Strings
CollectImports ==
    /\ pc = "collect"
    /\ \E order \in Orders(ExternalKeys(externalImports)) :
          dataImports' = SortStrings(order)
    /\ pc' = "open"
    /\ UNCHANGED <<diffFlag, listStatus, pos, externalImports, imports, buf,
                   file, file0, diffOut, fatal, exitCode, replay>>

\* os.Create(outFile) succeeds: the file exists and is empty
CreateFile ==
    /\ pc = "open"
    /\ WritesFile
    /\ file' = OnDisk(<<>>)
    /\ pc' = "execute"
    /\ UNCHANGED <<diffFlag, listStatus, pos, externalImports, imports,
                   dataImports, buf, file0, diffOut, fatal, exitCode, replay>>

\* os.Create(outFile) fails: nothing is opened, nothing truncated
CreateFails ==
    /\ pc = "open"
    /\ WritesFile
    /\ Fatal("create")
    /\ UNCHANGED <<diffFlag, listStatus, pos, externalImports, imports,
                   dataImports, buf, file, file0, diffOut, replay>>

\* after dockerfileTemplate.Execute: the diff, or the end of main()
AfterExecute ==
    IF diffFlag
    THEN pc' = "diff" /\ UNCHANGED <<fatal, exitCode>>
    ELSE pc' = "done" /\ exitCode' = 0 /\ UNCHANGED fatal

\* dockerfileTemplate.Execute(f, &data) writes every line
ExecuteFile ==
    /\ pc = "execute"
    /\ file' = OnDisk(dockerfileTemplate(dataImports))
    /\ AfterExecute
    /\ UNCHANGED <<diffFlag, listStatus, pos, externalImports, imports,
                   dataImports, buf, file0, diffOut, replay>>

\* dockerfileTemplate.Execute(f, &data): a write fails after n lines
ExecuteFileFails ==
    /\ pc = "execute"
    /\ \E n \in 0..(Len(dockerfileTemplate(dataImports)) - 1) :
          file' = OnDisk(SubSeq(dockerfileTemplate(dataImports), 1, n))
    /\ Fatal("execute")
    /\ UNCHANGED <<diffFlag, listStatus, pos, externalImports, imports,
                   dataImports, buf, file0, diffOut, replay>>

\* dockerfileTemplate.Execute(&buf, &data): out was left as the buffer
ExecuteBuf ==
    /\ pc = "open"
    /\ ~WritesFile
    /\ buf' = dockerfileTemplate(dataImports)
    /\ AfterExecute
    /\ UNCHANGED <<diffFlag, listStatus, pos, externalImports, imports,
                   dataImports, file, file0, diffOut, replay>>

\* exec.Command("diff", "-c", outFile, "-").Run() with buf on its stdin
RunDiff ==
    /\ pc = "diff"
    /\ diffOut' = DiffOutput(file, buf)
    /\ IF DiffExit(file, buf) # 0
       THEN Fatal("diff")
       ELSE pc' = "done" /\ exitCode' = 0 /\ UNCHANGED fatal
    /\ UNCHANGED <<diffFlag, listStatus, pos, externalImports, imports,
                   dataImports, buf, file, file0, replay>>

\* "go list" emits one more record, any record
DecodeAny ==
    /\ pos < MaxRecords
    /\ \E r \in Records : DecodePackage(r)

\* "go list" stops emitting records, at any point
DecodeEnd == \E err \in DecodeErrs : DecodeStops(err)

Next ==
    \/ StartFails
    \/ Start
    \/ DecodeAny
    \/ DecodeEnd
    \/ ClassifyImport
    \/ CollectImports
    \/ CreateFile
    \/ CreateFails
    \/ ExecuteFile
    \/ ExecuteFileFails
    \/ ExecuteBuf
    \/ RunDiff

Spec == Init /\ [][Next]_vars

-----------------------------------------------------------------------------
(* Two runs on the same package records *)

\* package A of the example: not domain-like, imports e.co/f and fmt
pkgA == Package(local, <<ecof, fmt>>, <<>>, <<>>)
\* package B of the example: imports e.co/f and g.org/x
pkgB == Package(dotted, <<ecof, gorgx>>, <<>>, <<>>)
\* a scanned package whose own path is domain-like and which others import
pkgF == Package(ecof, <<fmt>>, <<>>, <<gorgx>>)
\* the same imports in several of the three lists
pkgT == Package(dotted, <<ecofx>>, <<ecofx, ecof>>, <<ecof>>)

\* a second scanned domain-like package, importing the first in its tests
pkgV == Package(ecofx, <<>>, <<ecof>>, <<>>)
\* a package with the path of pkgA that imports itself
pkgS == Package(local, <<local, dotted>>, <<>>, <<>>)

Fixtures == {pkgA, pkgB, pkgF, pkgT, pkgV, pkgS}

\* the rearrangements of the sequence s
Rearrangements(s) == {[i \in 1..Len(s) |-> s[f[i]]] : f \in Orders(1..Len(s))}

\* what Execute wrote to `out`: the file, or the buffer in diff mode
Output == IF diffFlag THEN buf ELSE file.lines

\* "go list" will emit the records of script, then stop
InitReplay == Begin /\ script \in SeqsUpTo(Fixtures, MaxRecords)

DecodeScripted ==
    /\ pos < Len(script)
    /\ DecodePackage(script[pos + 1])

DecodeEndScripted ==
    /\ pos = Len(script)
    /\ \E err \in DecodeErrs : DecodeStops(err)

\* after a run that exited with status 0 the program is run again, with either
\* flag, on a tree whose packages "go list" emits in some order
Rerun ==
    /\ pc = "done"
    /\ exitCode = 0
    /\ ~second
    /\ second' = TRUE
    /\ prev' = [script |-> script, table |-> externalImports,
                imports |-> dataImports, output |-> Output]
    /\ script' \in Rearrangements(script)
    /\ diffFlag' \in BOOLEAN
    /\ pc' = "start"
    /\ listStatus' = "unstarted"
    /\ pos' = 0
    /\ externalImports' = <<>>
    /\ imports' = <<>>
    /\ dataImports' = <<>>
    /\ buf' = <<>>
    /\ file0' = file
    /\ diffOut' = "none"
    /\ UNCHANGED <<file, fatal, exitCode>>

NextReplay ==
    \/ StartFails
    \/ Start
    \/ DecodeScripted
    \/ DecodeEndScripted
    \/ ClassifyImport
    \/ CollectImports
    \/ CreateFile
    \/ CreateFails
    \/ ExecuteFile
    \/ ExecuteFileFails
    \/ ExecuteBuf
    \/ RunDiff
    \/ Rerun

SpecReplay == InitReplay /\ [][NextReplay]_vars


-----------------------------------------------------------------------------
(* Properties *)

HasSlash(p) == \E i \in 1..Len(p) : p[i] = "/"

\* p has a '.' with no '/' at or before it, and a '/' after it
DotBeforeFirstSlash(p) ==
    \E j \in 1..Len(p) :
        /\ p[j] = "."
        /\ \A k \in 1..j : p[k] # "/"
        /\ \E i \in (j + 1)..Len(p) : p[i] = "/"

StrictlyAscending(s) == \A i \in 1..(Len(s) - 1) : StrLess(s[i], s[i + 1])

\* the paths of the "RUN go get -v" lines of a document, in order
FetchLines(doc) == SelectSeq(doc, LAMBDA l : l.text = "RUN go get -v ")
FetchPaths(doc) == [i \in 1..Len(FetchLines(doc)) |-> FetchLines(doc)[i].arg]

IsStrictPrefix(s, t) == Len(s) < Len(t) /\ s = SubSeq(t, 1, Len(s))

\* the run is over and exited with status 0
Succeeded == pc = "done" /\ exitCode = 0

\* C1: in every state of the classification table, a path recorded as
\* external has a '/' and a '.' before its first '/', and a path without a
\* '/' is recorded as internal.
C1_ExternalIsDomainLike ==
    \A p \in DOMAIN externalImports :
        /\ externalImports[p] => HasSlash(p) /\ DotBeforeFirstSlash(p)
        /\ ~HasSlash(p) => ~externalImports[p]

\* a table holding an external path, an internal path with a '.' and no
\* '/', and an internal path whose only '.' follows the '/'
C1_Witness ==
    /\ {dotted, local, ecof} \subseteq DOMAIN externalImports
    /\ externalImports[ecof]
    /\ ~externalImports[dotted]
    /\ ~externalImports[local]
    /\ imports = <<>>

\* C2: the rendered list of external dependencies has no path twice and is
\* in ascending order, in data.Imports and in the lines written.
C2_SortedNoDuplicates ==
    /\ StrictlyAscending(dataImports)
    /\ StrictlyAscending(FetchPaths(buf))
    /\ (pc = "done" /\ fatal = "none" /\ ~diffFlag) => StrictlyAscending(FetchPaths(file.lines))

\* two records that name both external paths, the second one twice, written
C2_Witness ==
    /\ Succeeded
    /\ ~diffFlag
    /\ pos = 2
    /\ FetchPaths(file.lines) = <<ecof, ecofx>>

\* the file was written to, and neither left as it was nor completed
PartiallyWritten ==
    /\ file # file0
    /\ file # OnDisk(dockerfileTemplate(dataImports))

\* C3 as stated: after any of the four fatal errors the file is as it was,
\* and no run that ends in an error leaves a partially written file.
C3_Original ==
    pc = "done" =>
        /\ (listStatus \in {"nostart", "garbled"} \/ fatal \in {"create", "diff"}) => file = file0
        /\ fatal # "none" => ~PartiallyWritten

\* C3 amended: after any of the four fatal errors the file is as it was (a
\* stream that fails to decode ends the run before the file is created); the
\* one error that leaves a partially written file is a failed write of
\* Execute in write mode, which leaves a strict prefix of the document.
C3_NoWriteOnListedErrors ==
    pc = "done" =>
        /\ (listStatus \in {"nostart", "garbled"} \/ fatal \in {"create", "diff"}) => file = file0
        /\ (fatal # "none" /\ PartiallyWritten) =>
              /\ fatal = "execute"
              /\ ~diffFlag
              /\ file.exists
              /\ IsStrictPrefix(file.lines, dockerfileTemplate(dataImports))

\* write mode, an undecodable record after a well-formed one, the file intact
C3_Witness ==
    /\ pc = "done"
    /\ ~diffFlag
    /\ listStatus = "garbled"
    /\ pos >= 1
    /\ fatal = "decode"
    /\ file.exists
    /\ file = file0

\* C4: the run exits non-zero exactly when the enumeration failed (did not
\* start, or ended with an error status), a record failed to decode, a file
\* operation failed or the diff found a difference.
C4_ExitStatus ==
    pc = "done" =>
        (exitCode # 0 <=>
            \/ listStatus \in {"nostart", "failed", "garbled"}
            \/ fatal \in {"create", "execute", "diff"})

C6_DiffModeFrame ==
    /\ diffFlag => file = file0
    /\ (Succeeded /\ ~diffFlag) => file = OnDisk(dockerfileTemplate(dataImports))

\* diff mode, a difference found against a file that exists and is kept
C6_Witness ==
    /\ pc = "done"
    /\ diffFlag
    /\ fatal = "diff"
    /\ diffOut = "context"
    /\ file = file0

\* C8 as stated: no step changes the classification of a path that has one.
C8_Original ==
    [][\A p \in DOMAIN externalImports :
          p \in DOMAIN externalImports' /\ externalImports'[p] = externalImports[p]]_vars

\* C8 amended: a path keeps its entry; the loop over imports never changes
\* an existing classification; the only step that does is the one recording
\* a scanned package's own path, and it changes external to internal.
C8_OnlyOwnPathDemotes ==
    [][\A p \in DOMAIN externalImports :
          /\ p \in DOMAIN externalImports'
          /\ externalImports'[p] # externalImports[p] =>
                /\ externalImports[p]
                /\ ~externalImports'[p]
                /\ pos' = pos + 1
                /\ \A q \in DOMAIN externalImports \ {p} :
                      externalImports'[q] = externalImports[q]]_vars

\* the second record is being scanned, a domain-like path is recorded
\* internal, and that path is the next import to be looked at
C8_Witness ==
    /\ pc = "loop"
    /\ pos = 2
    /\ imports # <<>>
    /\ Head(imports) = ecof
    /\ ecof \in DOMAIN externalImports
    /\ ~externalImports[ecof]
    /\ ecofx \in DOMAIN externalImports
    /\ externalImports[ecofx]

Range(s) == {s[i] : i \in 1..Len(s)}

\* the stream was read to its end and data.Imports has been built
Collected ==
    /\ pc \in {"open", "execute", "diff", "done"}
    /\ listStatus \in {"ok", "failed"}

\* C7: two runs on the identical sequence of package records write the
\* same document, whatever order each range over the map took.
C7_SameInputSameOutput ==
    (second /\ Succeeded /\ script = prev.script) => Output = prev.output

\* a second run on the same records, with three external paths to order
C7_Witness ==
    /\ second
    /\ Succeeded
    /\ script = prev.script
    /\ Len(script) = 2
    /\ Len(dataImports) = 3
    /\ Output = prev.output

\* the paths the records of s import, in any of the three lists
ImportedPaths(s) ==
    UNION {Range(s[i].Imports) \cup Range(s[i].TestImports) \cup Range(s[i].XTestImports) :
              i \in 1..Len(s)}

\* the paths of the records of s themselves
OwnPaths(s) == {s[i].ImportPath : i \in 1..Len(s)}

\* imported by a record, domain-like, and not a scanned package
ExpectedExternal(s) ==
    {p \in ImportedPaths(s) : DotBeforeFirstSlash(p) /\ p \notin OwnPaths(s)}

\* three lines of preamble, one fetch line per path of imps in order, an
\* empty line and the copy directive
IsDocumentOf(doc, imps) ==
    /\ Len(doc) = Len(imps) + 5
    /\ doc[1] = Line("# Code generated by gendockerfile. DO NOT EDIT.", <<>>)
    /\ doc[2] = Line("FROM golang:latest", <<>>)
    /\ doc[3] = Line("WORKDIR /go/src/go.elastic.co/apm", <<>>)
    /\ \A i \in 1..Len(imps) : doc[3 + i] = Line("RUN go get -v ", imps[i])
    /\ doc[Len(doc) - 1] = Line("", <<>>)
    /\ doc[Len(doc)] = Line("ADD . /go/src/go.elastic.co/apm", <<>>)

\* C9: the rendered list is the ascending list of the paths that a record
\* imports, that are domain-like and that are not the own path of a scanned
\* record; the document has one fetch line for each, between the preamble
\* and the copy directive; the example of packages A and B gives exactly
\* e.co/f and g.org/x.
C9_RenderedListIsExpected ==
    /\ Collected =>
          /\ StrictlyAscending(dataImports)
          /\ Range(dataImports) = ExpectedExternal(script)
          /\ fmt \notin Range(dataImports)
          /\ script = <<pkgA, pkgB>> => dataImports = <<ecof, gorgx>>
    /\ Succeeded => IsDocumentOf(Output, dataImports)

\* the example: A then B, the document written
C9_Witness ==
    /\ Succeeded
    /\ ~diffFlag
    /\ script = <<pkgA, pkgB>>
    /\ FetchPaths(file.lines) = <<ecof, gorgx>>

\* C10: streams that are rearrangements of each other end with the same
\* classification table and the same rendered list.
C10_OrderIndependent ==
    (second /\ listStatus \in {"ok", "failed"}) =>
        /\ externalImports = prev.table
        /\ pc # "collect" => dataImports = prev.imports

\* e.co/f scanned as a package before, and after, the package importing it
C10_Witness ==
    /\ second
    /\ Collected
    /\ prev.script = <<pkgA, pkgF>>
    /\ script = <<pkgF, pkgA>>
    /\ ~externalImports[ecof]
    /\ externalImports = prev.table

=============================================================================
